---- MODULE Spec2Model ----
(***************************************************************************)
(* Model of config_profile/Config.py: the layered configuration accessor   *)
(* Config (environment, profile file, base file).                          *)
(*                                                                         *)
(* Python strings are sequences of one-character strings, so that          *)
(* str.lower(), str.upper() and str.replace(".", "_") are computed         *)
(* character by character.  A Python value is a record                     *)
(*   [t, s, b, n, e]  with tag t in                                        *)
(*   "none" (None), "str" (s), "bool" (b), "num" (n), "raise" (e raised).  *)
(*                                                                         *)
(* Two specifications:                                                     *)
(*   Spec       the program as written: the process environment, the       *)
(*              resource files, the constructor Config(...) and the class  *)
(*              method get_env_value;                                      *)
(*   SpecStore  the accessor methods applied to an instance whose _config  *)
(*              holds what the merge loop of                               *)
(*              _populate_with_values_from_yml writes for two flattened    *)
(*              dictionaries, under a changing environment.                *)
(***************************************************************************)
EXTENDS Integers, Sequences, FiniteSets, TLC

VARIABLES env, files, _config, last

vars == <<env, files, _config, last>>

----------------------------------------------------------------------------
(* Bounds *)

\* how many environment variables are set at once
MaxEnvVars == 2
\* how many entries one flattened settings file has
MaxFileEntries == 1

----------------------------------------------------------------------------
(* Strings *)

LowerChars == <<"a", "b", "c", "d", "e", "f", "g", "h", "i", "j", "k", "l", "m", "n", "o", "p", "q", "r", "s", "t", "u", "v", "w", "x", "y", "z">>
UpperChars == <<"A", "B", "C", "D", "E", "F", "G", "H", "I", "J", "K", "L", "M", "N", "O", "P", "Q", "R", "S", "T", "U", "V", "W", "X", "Y", "Z">>

\* str.lower() on one character
lower_char(c) ==
    IF \E i \in DOMAIN UpperChars : UpperChars[i] = c
    THEN LowerChars[CHOOSE i \in DOMAIN UpperChars : UpperChars[i] = c]
    ELSE c

\* str.upper() on one character
upper_char(c) ==
    IF \E i \in DOMAIN LowerChars : LowerChars[i] = c
    THEN UpperChars[CHOOSE i \in DOMAIN LowerChars : LowerChars[i] = c]
    ELSE c

\* str.lower()
lower(s) == [i \in DOMAIN s |-> lower_char(s[i])]

\* str.upper()
upper(s) == [i \in DOMAIN s |-> upper_char(s[i])]

\* str.replace(".", "_")
replace_dot(s) == [i \in DOMAIN s |-> IF s[i] = "." THEN "_" ELSE s[i]]

\* key.upper().replace(".", "_")
env_alias(key) == replace_dot(upper(key))

\* the string literals of Config.py
KEY_PROFILE == <<"a", "p", "p", "l", "i", "c", "a", "t", "i", "o", "n", ".", "p", "r", "o", "f", "i", "l", "e">>
BASE_FILE == <<"r", "e", "s", "o", "u", "r", "c", "e", "s", "/", "a", "p", "p", "l", "i", "c", "a", "t", "i", "o", "n", ".", "y", "m", "l">>
PROFILE_FILE_PREFIX == <<"r", "e", "s", "o", "u", "r", "c", "e", "s", "/", "a", "p", "p", "l", "i", "c", "a", "t", "i", "o", "n", "-">>
YML == <<".", "y", "m", "l">>
LIT_LOCAL == <<"l", "o", "c", "a", "l">>
LIT_PROD == <<"p", "r", "o", "d">>
LIT_STAGING == <<"s", "t", "a", "g", "i", "n", "g">>
LIT_CI == <<"c", "i">>
LIT_TRUE == <<"t", "r", "u", "e">>
QA_SUFFIX == <<"_", "q", "a">>
NETWORK_INTEL == <<"n", "e", "t", "w", "o", "r", "k", "_", "i", "n", "t", "e", "l">>

\* f"resources/application-{profile}.yml"
profile_file(profile) == PROFILE_FILE_PREFIX \o profile \o YML

----------------------------------------------------------------------------
(* Python values *)

None == [t |-> "none", s |-> <<>>, b |-> FALSE, n |-> 0, e |-> ""]
Str(x) == [t |-> "str", s |-> x, b |-> FALSE, n |-> 0, e |-> ""]
Bool(x) == [t |-> "bool", s |-> <<>>, b |-> x, n |-> 0, e |-> ""]
Num(x) == [t |-> "num", s |-> <<>>, b |-> FALSE, n |-> x, e |-> ""]
Raise(x) == [t |-> "raise", s |-> <<>>, b |-> FALSE, n |-> 0, e |-> x]

\* Python truth value of v, as tested by "if v:"
Truthy(v) ==
    CASE v.t = "str" -> v.s # <<>>
      [] v.t = "bool" -> v.b
      [] v.t = "num" -> v.n # 0
      [] OTHER -> FALSE

\* the empty dict
EmptyMap == [x \in {} |-> None]

\* dict.get(key): the value, or None
dict_get(d, key) == IF key \in DOMAIN d THEN d[key] ELSE None

\* d[key] = value
dict_put(d, key, value) ==
    [x \in DOMAIN d \cup {key} |-> IF x = key THEN value ELSE d[x]]

----------------------------------------------------------------------------
(* The keys, names and values the model draws from *)

KEY_AB == <<"a", ".", "b">>
KEY_AB_MIXED == <<"A", ".", "b">>
ENV_AB == <<"A", "_", "B">>
ENV_PROFILE == <<"A", "P", "P", "L", "I", "C", "A", "T", "I", "O", "N", "_", "P", "R", "O", "F", "I", "L", "E">>

\* names of environment variables
EnvNames == {KEY_AB, ENV_AB, KEY_PROFILE, ENV_PROFILE}

\* values of environment variables (os.environ holds strings only)
EnvValues == {<<>>, <<"D", "e", "v">>, <<"T", "R", "U", "E">>}

\* keys the accessors are called with
QueryKeys == {KEY_AB, KEY_AB_MIXED, KEY_PROFILE}

\* values of a settings file: strings, booleans, numbers
FileValues ==
    {Str(<<"v">>), Str(<<>>), Str(<<"T", "r", "u", "e">>),
     Bool(TRUE), Bool(FALSE), Num(0), Num(5)}

\* the items of a flattened settings file, as DictUtil.flatten_dict yields
\* them: a key in either letter case with any value, or a profile entry
FileItems ==
    [k : {KEY_AB, KEY_AB_MIXED}, v : FileValues]
        \cup [k : {KEY_PROFILE}, v : {Str(<<"p", "r", "o", "d">>)}]

\* a flattened file: the items of the dict, in iteration order, keys unique
FlatDicts ==
    {f \in UNION {[1..n -> FileItems] : n \in 0..MaxFileEntries} :
        \A i, j \in DOMAIN f : i # j => f[i].k # f[j].k}

\* the resource files of the program: base file, local and dev profile file
FileNames == {BASE_FILE, profile_file(LIT_LOCAL), profile_file(<<"d", "e", "v">>)}

\* what a resource file of the program holds
ResourceDicts ==
    {f \in FlatDicts :
        \A i \in DOMAIN f : f[i].k = KEY_AB /\ f[i].v \in {Str(<<"v">>), Str(<<"T", "r", "u", "e">>)}}

----------------------------------------------------------------------------
(* The environment *)

\* os.environ.get(name)
os_environ_get(name) == IF name \in DOMAIN env THEN Str(env[name]) ELSE None

\* get_env_value with the two lookups swapped: the alias is tried first
get_env_value_alias_first(key, default) ==
    LET v == os_environ_get(env_alias(key)) IN
    IF Truthy(v) THEN v
    ELSE LET w == os_environ_get(key) IN
         IF Truthy(w) THEN w ELSE default

\* Config.get_env_value, lines 142-151
get_env_value(key, default) ==
    LET v == os_environ_get(key) IN
    IF Truthy(v) THEN v
    ELSE LET w == os_environ_get(env_alias(key)) IN
         IF Truthy(w) THEN w ELSE default

\* get_profile falling back to the settings files before "local"
get_profile_from_files ==
    LET profile == get_env_value(KEY_PROFILE, None) IN
    IF Truthy(profile) THEN Str(lower(profile.s))
    ELSE IF Truthy(dict_get(_config, KEY_PROFILE)) THEN dict_get(_config, KEY_PROFILE)
    ELSE Str(LIT_LOCAL)

\* Config.get_profile, lines 133-140
get_profile ==
    LET profile == get_env_value(KEY_PROFILE, None) IN
    IF Truthy(profile) THEN Str(lower(profile.s)) ELSE Str(LIT_LOCAL)

----------------------------------------------------------------------------
(* The accessors *)

\* get with the two sources swapped: the settings files are tried first
get_file_first(key, default) ==
    LET w == dict_get(_config, key) IN
    IF Truthy(w) THEN w
    ELSE LET v == get_env_value(key, None) IN
         IF Truthy(v) THEN v ELSE default

\* Config.get, lines 78-88
get(key, default) ==
    LET v == get_env_value(key, None) IN
    IF Truthy(v) THEN v
    ELSE LET w == dict_get(_config, key) IN
         IF Truthy(w) THEN w ELSE default

\* Config.get_required, lines 90-94
get_required(key) ==
    LET v == get(key, None) IN
    IF v.t = "none" THEN Raise("RequiredConfigKeyException") ELSE v

\* v.lower() == "true" of lines 108 and 113: only a str has the method lower
lower_is_true(v) ==
    IF v.t = "str" THEN Bool(lower(v.s) = LIT_TRUE) ELSE Raise("AttributeError")

\* Config.get_boolean, lines 102-109
get_boolean(key, default) ==
    LET v == get(key, None) IN
    IF v.t = "bool" THEN v
    ELSE IF Truthy(v) THEN lower_is_true(v) ELSE default

\* Config.get_boolean_required, lines 111-113
get_boolean_required(key) ==
    LET v == get_required(key) IN
    IF v.t = "raise" THEN v ELSE lower_is_true(v)

\* Config.is_enabled, lines 96-97
is_enabled(key) == get_boolean(key, Bool(FALSE))

\* Config.get_dataset_name, lines 53-61
get_dataset_name(base_name) ==
    LET profile == get_profile.s IN
    IF profile \in {LIT_PROD, LIT_STAGING, LIT_CI} THEN Str(base_name)
    ELSE IF profile \in {LIT_LOCAL} THEN Str(base_name \o QA_SUFFIX)
    ELSE Str(base_name \o <<"_">> \o profile)

----------------------------------------------------------------------------
(* Construction *)

\* build_path, lines 17-23: line 23 reads cls.root_folder, and no name cls
\* is bound in a module-level function, so the call raises NameError
build_path(filename, rootdir) == [path |-> <<>>, exc |-> "NameError"]

\* the loop of lines 70-71: self._config[k.lower()] = v for every item
RECURSIVE merge_items(_, _)
merge_items(cfg, items) ==
    IF items = <<>> THEN cfg
    ELSE merge_items(dict_put(cfg, lower(Head(items).k), Head(items).v), Tail(items))

\* Config._populate_with_values_from_yml, lines 63-76, called on a store
\* holding cfg with the positional arguments args; the method has the two
\* required parameters config_file and rootdir.  Anything but
\* FileNotFoundError propagates.
_populate_with_values_from_yml(cfg, args) ==
    IF Len(args) # 2 THEN [cfg |-> cfg, exc |-> "TypeError"]
    ELSE LET p == build_path(args[1], args[2]) IN
         IF p.exc # "" THEN [cfg |-> cfg, exc |-> p.exc]
         ELSE IF p.path \in DOMAIN files
              THEN [cfg |-> merge_items(cfg, files[p.path]), exc |-> ""]
              ELSE [cfg |-> cfg, exc |-> ""]

\* Config.__init__, lines 43-51: both calls of
\* _populate_with_values_from_yml pass one argument
Config__init__ ==
    LET r1 == _populate_with_values_from_yml(EmptyMap, <<BASE_FILE>>) IN
    IF r1.exc # "" THEN r1
    ELSE _populate_with_values_from_yml(r1.cfg, <<profile_file(get_profile.s)>>)

----------------------------------------------------------------------------
(* Actions *)

NoCall == [op |-> "none", key |-> <<>>, dflt |-> None, res |-> None]
Call(op, key, dflt, res) == [op |-> op, key |-> key, dflt |-> dflt, res |-> res]

\* os.environ[name] = value
SetEnv(name, value) ==
    /\ Cardinality(DOMAIN env \cup {name}) <= MaxEnvVars
    /\ env' = [x \in DOMAIN env \cup {name} |-> IF x = name THEN value ELSE env[x]]
    /\ last' = NoCall
    /\ UNCHANGED <<files, _config>>

\* del os.environ[name]
UnsetEnv(name) ==
    /\ name \in DOMAIN env
    /\ env' = [x \in DOMAIN env \ {name} |-> env[x]]
    /\ last' = NoCall
    /\ UNCHANGED <<files, _config>>

\* Config(...): the constructor call
Construct ==
    LET r == Config__init__ IN
    /\ _config' = r.cfg
    /\ last' = Call("__init__", <<>>, None, IF r.exc # "" THEN Raise(r.exc) ELSE None)
    /\ UNCHANGED <<env, files>>

\* Config.get_env_value(key, default)
GetEnvValue(key, default) ==
    /\ last' = Call("get_env_value", key, default, get_env_value(key, default))
    /\ UNCHANGED <<env, files, _config>>

EnvDefaults == {None, Str(<<"d">>)}

Init ==
    /\ env = [x \in {} |-> <<>>]
    /\ \E D \in SUBSET FileNames : files \in [D -> ResourceDicts]
    /\ _config = EmptyMap
    /\ last = NoCall

Next ==
    \/ \E name \in EnvNames, value \in EnvValues : SetEnv(name, value)
    \/ \E name \in EnvNames : UnsetEnv(name)
    \/ Construct
    \/ \E key \in QueryKeys, default \in EnvDefaults : GetEnvValue(key, default)

Spec == Init /\ [][Next]_vars

----------------------------------------------------------------------------
(* The accessors on a store *)

GetDefaults == {None, Str(<<"d">>)}
BoolDefaults == {None, Bool(TRUE)}
BaseNames == {NETWORK_INTEL}

\* get that stores the value it found in the mapping
GetCaching(key, default) ==
    /\ last' = Call("get", key, default, get(key, default))
    /\ _config' = IF Truthy(get(key, default))
                  THEN dict_put(_config, key, get(key, default))
                  ELSE _config
    /\ UNCHANGED <<env, files>>

\* config.get(key, default)
Get(key, default) ==
    /\ last' = Call("get", key, default, get(key, default))
    /\ UNCHANGED <<env, files, _config>>

\* config.get_required(key)
GetRequired(key) ==
    /\ last' = Call("get_required", key, None, get_required(key))
    /\ UNCHANGED <<env, files, _config>>

\* config.get_boolean(key, default)
GetBoolean(key, default) ==
    /\ last' = Call("get_boolean", key, default, get_boolean(key, default))
    /\ UNCHANGED <<env, files, _config>>

\* config.get_boolean_required(key)
GetBooleanRequired(key) ==
    /\ last' = Call("get_boolean_required", key, None, get_boolean_required(key))
    /\ UNCHANGED <<env, files, _config>>

\* config.is_enabled(key)
IsEnabled(key) ==
    /\ last' = Call("is_enabled", key, None, is_enabled(key))
    /\ UNCHANGED <<env, files, _config>>

\* config.get_profile()
GetProfile ==
    /\ last' = Call("get_profile", <<>>, None, get_profile)
    /\ UNCHANGED <<env, files, _config>>

\* config.get_dataset_name(base_name)
GetDatasetName(base_name) ==
    /\ last' = Call("get_dataset_name", base_name, None, get_dataset_name(base_name))
    /\ UNCHANGED <<env, files, _config>>

\* an instance whose _config was filled by the merge loop from a first
\* and then a second flattened dictionary.  Config__init__ raises before
\* the first merge, so the contents of _config are drawn here, over every
\* pair of dictionaries, and not produced by Construct.
StoreInit ==
    /\ env = [x \in {} |-> <<>>]
    /\ files = [x \in {} |-> <<>>]
    /\ \E first, second \in FlatDicts :
           _config = merge_items(merge_items(EmptyMap, first), second)
    /\ last = NoCall

StoreNext ==
    \/ \E name \in EnvNames, value \in EnvValues : SetEnv(name, value)
    \/ \E name \in EnvNames : UnsetEnv(name)
    \/ \E key \in QueryKeys, default \in GetDefaults : Get(key, default)
    \/ \E key \in QueryKeys : GetRequired(key)
    \/ \E key \in QueryKeys, default \in BoolDefaults : GetBoolean(key, default)
    \/ \E key \in QueryKeys : GetBooleanRequired(key)
    \/ \E key \in QueryKeys : IsEnabled(key)
    \/ GetProfile
    \/ \E base_name \in BaseNames : GetDatasetName(base_name)

SpecStore == StoreInit /\ [][StoreNext]_vars

----------------------------------------------------------------------------
(* What the claims speak of *)

\* the variable is set to a non-empty string
EnvNonEmpty(name) == name \in DOMAIN env /\ env[name] # <<>>

\* the uppercase/underscore alias of each key the accessors are called with
AliasOf(key) ==
    CASE key = KEY_AB -> ENV_AB
      [] key = KEY_AB_MIXED -> ENV_AB
      [] key = KEY_PROFILE -> ENV_PROFILE

\* the lowercase form of each key the accessors are called with
LowerKeyOf(key) ==
    CASE key = KEY_AB -> KEY_AB
      [] key = KEY_AB_MIXED -> KEY_AB
      [] key = KEY_PROFILE -> KEY_PROFILE

\* the lowercase form of each value of an environment variable
LowerValueOf(value) ==
    CASE value = <<"D", "e", "v">> -> <<"d", "e", "v">>
      [] value = <<"T", "R", "U", "E">> -> <<"t", "r", "u", "e">>
      [] OTHER -> value

\* the environment holds a non-empty value for the key, under either name
EnvSupplies(key) == EnvNonEmpty(key) \/ EnvNonEmpty(AliasOf(key))

\* that value: the literal name first, the alias second
EnvValueFor(key) == IF EnvNonEmpty(key) THEN env[key] ELSE env[AliasOf(key)]

\* the flattened file defines the key
Defines(items, key) == \E i \in DOMAIN items : items[i].k = key

\* the value the flattened file defines for the key
ValueIn(items, key) == items[CHOOSE i \in DOMAIN items : items[i].k = key].v

\* the profile file of the profile active in the current environment
ActiveProfileFile == profile_file(get_profile.s)

\* the mapping that holds exactly the entries of the files that exist
EntriesOfExistingFiles ==
    LET base == IF BASE_FILE \in DOMAIN files THEN files[BASE_FILE] ELSE <<>>
        prof == IF ActiveProfileFile \in DOMAIN files THEN files[ActiveProfileFile] ELSE <<>>
    IN merge_items(merge_items(EmptyMap, base), prof)

----------------------------------------------------------------------------
(* Claims about the environment *)

\* C6: get_env_value(key, default) returns the environment value under the
\* literal key when it is non-empty, otherwise the value under the
\* uppercase/underscore alias when that is non-empty, otherwise default.
C6_EnvValueResolution ==
    last.op = "get_env_value" =>
        last.res = IF EnvNonEmpty(last.key) THEN Str(env[last.key])
                   ELSE IF EnvNonEmpty(AliasOf(last.key)) THEN Str(env[AliasOf(last.key)])
                   ELSE last.dflt

\* a.b is set but empty, A_B is non-empty, and get_env_value("a.b", "d")
\* returned the value of A_B
C6_Witness ==
    /\ last.op = "get_env_value"
    /\ last.key = KEY_AB
    /\ last.dflt # None
    /\ KEY_AB \in DOMAIN env /\ env[KEY_AB] = <<>>
    /\ EnvNonEmpty(ENV_AB)
    /\ last.res = Str(env[ENV_AB])

----------------------------------------------------------------------------
(* Claims about construction *)

\* C2: for every key defined in both the base file and the profile file of
\* the profile active at construction, with no environment value for the
\* key, get(key) on the constructed store returns the profile file's value.
C2_ProfileFileWins ==
    last.op = "__init__" =>
        \A key \in QueryKeys :
            ( /\ BASE_FILE \in DOMAIN files
              /\ Defines(files[BASE_FILE], key)
              /\ ActiveProfileFile \in DOMAIN files
              /\ Defines(files[ActiveProfileFile], key)
              /\ ~EnvSupplies(key) )
            => /\ last.res.t # "raise"
               /\ get(key, None) = ValueIn(files[ActiveProfileFile], key)

\* C3: for every key defined only in the base file, with no environment
\* value for the key, get(key) on a store constructed from that resource
\* directory returns the base file's value.
C3_BaseFileValue ==
    last.op = "__init__" =>
        \A key \in QueryKeys :
            ( /\ BASE_FILE \in DOMAIN files
              /\ Defines(files[BASE_FILE], key)
              /\ ~( /\ ActiveProfileFile \in DOMAIN files
                    /\ Defines(files[ActiveProfileFile], key) )
              /\ ~EnvSupplies(key) )
            => /\ last.res.t # "raise"
               /\ get(key, None) = ValueIn(files[BASE_FILE], key)

\* C8: for every combination of present and absent base and profile file,
\* and for every profile, the constructor completes and the mapping of the
\* store holds exactly the entries of the files that exist.
C8_MissingFilesNotFatal ==
    last.op = "__init__" =>
        /\ last.res.t # "raise"
        /\ _config = EntriesOfExistingFiles

----------------------------------------------------------------------------
(* Claims about the accessors *)

\* C1: if the environment holds a non-empty value for the key, under its
\* literal name or its uppercase/underscore alias, get(key, default) returns
\* that environment value, never the file value and never the default.
C1_EnvironmentWins ==
    (last.op = "get" /\ EnvSupplies(last.key)) =>
        last.res = Str(EnvValueFor(last.key))

\* the mapping holds a value for the key, a default was passed, the
\* environment holds another value under the alias, and get returned it
C1_Witness ==
    /\ last.op = "get"
    /\ last.key = KEY_AB
    /\ last.dflt # None
    /\ Truthy(dict_get(_config, KEY_AB))
    /\ ~EnvNonEmpty(KEY_AB)
    /\ EnvNonEmpty(ENV_AB)
    /\ last.res = Str(env[ENV_AB])
    /\ last.res # dict_get(_config, KEY_AB)

\* the value a source supplies for the key: the environment first, then the
\* mapping under the lowercased key, empty and false values counting as absent
SourceSupplies(key) ==
    EnvSupplies(key) \/ Truthy(dict_get(_config, LowerKeyOf(key)))

\* C4: get_required(key) raises the required-key error exactly when no
\* source (environment literal name, environment alias, profile file, base
\* file) supplies a value for the key; otherwise it returns what get(key)
\* returns.
C4_RequiredFailsIffAbsent ==
    last.op = "get_required" =>
        /\ (last.res = Raise("RequiredConfigKeyException")) <=> ~SourceSupplies(last.key)
        /\ SourceSupplies(last.key) => last.res = get(last.key, None)

\* C5: get_profile() is the lowercased non-empty environment value of
\* application.profile / APPLICATION_PROFILE and "local" otherwise, whatever
\* the settings files define under application.profile.
C5_ProfileFromEnvironmentOnly ==
    last.op = "get_profile" =>
        last.res = IF EnvSupplies(KEY_PROFILE)
                   THEN Str(LowerValueOf(EnvValueFor(KEY_PROFILE)))
                   ELSE Str(LIT_LOCAL)

\* a settings file defines application.profile, APPLICATION_PROFILE is Dev,
\* and get_profile() returned dev
C5_Witness ==
    /\ last.op = "get_profile"
    /\ Truthy(dict_get(_config, KEY_PROFILE))
    /\ ENV_PROFILE \in DOMAIN env /\ env[ENV_PROFILE] = <<"D", "e", "v">>
    /\ KEY_PROFILE \notin DOMAIN env
    /\ last.res = Str(<<"d", "e", "v">>)

\* C7: get_boolean and get_boolean_required never raise a conversion error:
\* a boolean is returned as it is, a string gives whether it equals "true"
\* ignoring case, any other content gives false; an absent key gives the
\* default, or the required-key error from get_boolean_required.
C7_BooleanNeverRaises ==
    last.op \in {"get_boolean", "get_boolean_required"} =>
        LET v == get(last.key, None) IN
        CASE v.t = "bool" -> last.res = v
          [] v.t = "str" -> last.res = Bool(lower(v.s) = LIT_TRUE)
          [] v.t = "num" -> last.res = Bool(FALSE)
          [] OTHER -> last.res = IF last.op = "get_boolean" THEN last.dflt
                                 ELSE Raise("RequiredConfigKeyException")

\* C9: file lookup in get is case-normalized: for every key with no
\* environment value under the key or its alias, get(key, default) equals
\* get(lowercase(key), default).
C9_CaseNormalizedLookup ==
    (last.op = "get" /\ ~EnvSupplies(last.key)) =>
        last.res = get(LowerKeyOf(last.key), last.dflt)

====
